---------------------------- MODULE Spec2Model ----------------------------
(***************************************************************************)
(* Model of src/Data/make_data.py: the paginated station scrape            *)
(* (scrape_weather_stations), the nearest-station resolver                 *)
(* (closest_weather_station) and the daily observation lookup              *)
(* (weather_data).                                                         *)
(*                                                                         *)
(* The HTTP server is the environment.  Its answer to a page request is a  *)
(* function of the server's configuration (how many stations it holds for  *)
(* a province, its page limit, how it treats startindex), or a failure,    *)
(* which any request may meet.                                             *)
(***************************************************************************)
EXTENDS Integers, Sequences, FiniteSets, TLC

VARIABLES
    \* ---- scrape_weather_stations
    provinces_arg,          \* the argument: a tagged str or list value
    server,                 \* the environment: what the API holds and how it pages
    pc,                     \* position in scrape_weather_stations
    provinces,              \* the local list after line 30-31
    region,                 \* index of the for loop of line 36 in provinces
    startindex,             \* params["startindex"]
    all_weather_stations,   \* the accumulated frame (sequence of rows), a
                            \* local: empty again once the function is left
    requests,               \* history: every requests.get issued, in order,
                            \* with the loop's region and how it was answered
    result,                 \* what the caller of scrape_weather_stations gets
    \* ---- closest_weather_station / weather_data
    wpc,                    \* position in weather_data / closest_weather_station
    query,                  \* latitude, longitude, date_
    weather_stations,       \* the catalog argument
    closest_station,        \* the resolver's outcome
    observations,           \* the observation endpoint's answer
    weather                 \* what the caller of weather_data gets

svars == <<provinces_arg, server, pc, provinces, region, startindex,
           all_weather_stations, requests, result>>
wvars == <<wpc, query, weather_stations, closest_station,
           observations, weather>>
vars == <<svars, wvars>>

---------------------------------------------------------------------------
(* Bounds of the model *)

\* longest list of provinces passed to scrape_weather_stations
MaxRegions == 2
\* page requests the environment answers within one province; a server that
\* keeps answering full pages is followed up to here
MaxPages == 3

(* Program constants *)

\* the chunk size of lines 49-50
PageSize == 500
\* the divisor 10e6 of lines 58-59
CoordinateDivisor == 10000000

ProvinceNames == {"ON", "QC"}
\* numbers of stations a server holds for a province
Sizes == {0, 499, 500, 1000}

---------------------------------------------------------------------------
(* Helpers on sequences *)

SeqsUpTo(S, n) == UNION {[1..k -> S] : k \in 0..n}

RECURSIVE Concat(_)
Concat(ss) == IF ss = <<>> THEN <<>> ELSE Head(ss) \o Concat(Tail(ss))

Min(a, b) == IF a < b THEN a ELSE b
Max(a, b) == IF a > b THEN a ELSE b

---------------------------------------------------------------------------
(* The environment: the climate-stations endpoint *)

\* The k-th station the API holds for province p, as its "properties" object:
\* coordinates are served scaled by 10^7, dates as text, here the digits
\* yyyymmdd of "yyyy-mm-dd 00:00:00".
ServerRecord(p, k) ==
    [ENG_PROV_NAME |-> p,
     STN_ID        |-> k,
     LONGITUDE     |-> (0 - (50 + (k % 90))) * CoordinateDivisor,
     LATITUDE      |-> (42 + (k % 40)) * CoordinateDivisor,
     FIRST_DATE    |-> (1950 + (k % 50)) * 10000 + (1 + (k % 12)) * 100 + 1,
     LAST_DATE     |-> (2000 + (k % 20)) * 10000 + (1 + (k % 12)) * 100 + 28]

\* response.json()["features"] mapped to properties (lines 41-44): the page the
\* server configured as s serves for province p from offset idx.
\* A server pages from startindex ("honoured"), from the record before it
\* ("overlapping": consecutive pages share a record) or always from its first
\* record ("ignored").
PageStart(s, idx) ==
    CASE s.paging = "honoured"    -> idx
      [] s.paging = "overlapping" -> Max(1, idx - 1)
      [] s.paging = "ignored"     -> 1

PageLength(s, p, idx) ==
    Max(0, Min(s.limit, s.held[p] - PageStart(s, idx) + 1))

Respond(s, p, idx) ==
    [i \in 1..PageLength(s, p, idx) |-> ServerRecord(p, PageStart(s, idx) + i - 1)]

Servers ==
    [held : [ProvinceNames -> Sizes],
     limit : {PageSize - 1, PageSize, PageSize + 1},
     paging : {"honoured", "overlapping", "ignored"}]

---------------------------------------------------------------------------
(* scrape_weather_stations *)

\* lines 30-31: a str argument becomes a one-element list
NormaliseProvinces(arg) ==
    IF arg.type = "str" THEN <<arg.value>> ELSE arg.value

\* Variants of line 49 a slip would produce: paging on while a page holds
\* anything, while it holds at least a chunk, or while it is not a chunk.
FullPage_NonEmpty(page) == Len(page) > 0
FullPage_AtLeast(page) == Len(page) >= PageSize
FullPage_Inverted(page) == Len(page) /= PageSize

\* line 49: the page just received was a full chunk
FullPage(page) == Len(page) = PageSize

\* Variant of line 46 that skips a page whose first row is already held.
Accumulate_Dedup(all, page) ==
    IF page /= <<>> /\ \E i \in DOMAIN all : all[i] = page[1]
    THEN all
    ELSE all \o page

\* line 46: pd.concat([all_weather_stations, weather_stations])
Accumulate(all, page) == all \o page

\* pd.to_datetime on the text of a date: the day's ordinal in a calendar of
\* 31-day months, which orders dates as the calendar does
ToDatetime(d) ==
    LET year  == d \div 10000
        month == (d \div 100) % 100
        day   == d % 100
    IN  (year * 12 + (month - 1)) * 31 + (day - 1)

\* lines 57-64 on one row
FixColumnTypes(row) ==
    [row EXCEPT !.LONGITUDE  = @ \div CoordinateDivisor,
                !.LATITUDE   = @ \div CoordinateDivisor,
                !.FIRST_DATE = ToDatetime(@),
                !.LAST_DATE  = ToDatetime(@)]

NoResult == [outcome |-> "pending", value |-> <<>>]

ProvinceArgs ==
    {[type |-> "str", value |-> p] : p \in ProvinceNames}
    \cup {[type |-> "list", value |-> l] : l \in SeqsUpTo(ProvinceNames, MaxRegions)}

\* lines 30-34
Start ==
    /\ pc = "start"
    /\ provinces' = NormaliseProvinces(provinces_arg)
    /\ all_weather_stations' = <<>>
    /\ region' = 1
    /\ pc' = "for"
    /\ UNCHANGED <<provinces_arg, server, startindex, requests, result>>
    /\ UNCHANGED wvars

\* lines 36-37: the next province, its params with startindex 1
NextProvince ==
    /\ pc = "for"
    /\ region <= Len(provinces)
    /\ startindex' = 1
    /\ pc' = "get"
    /\ UNCHANGED <<provinces_arg, server, provinces, region,
                   all_weather_stations, requests, result>>
    /\ UNCHANGED wvars

\* lines 41-52: one iteration of the while loop whose request is answered
GetPage ==
    /\ pc = "get"
    /\ (startindex - 1) \div PageSize < MaxPages
    /\ LET province == provinces[region]
           page == Respond(server, province, startindex)
       IN  /\ requests' = Append(requests,
                  [region |-> region, ENG_PROV_NAME |-> province,
                   startindex |-> startindex, failed |-> FALSE,
                   received |-> Len(page)])
           /\ all_weather_stations' = Accumulate(all_weather_stations, page)
           /\ IF FullPage(page)
              THEN /\ startindex' = startindex + PageSize
                   /\ UNCHANGED <<pc, region>>
              ELSE /\ pc' = "for"
                   /\ region' = region + 1
                   /\ UNCHANGED startindex
    /\ UNCHANGED <<provinces_arg, server, provinces, result>>
    /\ UNCHANGED wvars

\* Variant of lines 41-44 that swallows the exception and goes on with the
\* next province.
GetFails_SkipsProvince ==
    /\ pc = "get"
    /\ (startindex - 1) \div PageSize < MaxPages
    /\ requests' = Append(requests,
           [region |-> region, ENG_PROV_NAME |-> provinces[region],
            startindex |-> startindex, failed |-> TRUE, received |-> 0])
    /\ pc' = "for"
    /\ region' = region + 1
    /\ UNCHANGED <<provinces_arg, server, provinces, startindex,
                   all_weather_stations, result>>
    /\ UNCHANGED wvars

\* lines 41-44: requests.get or response.json() raises; nothing catches it,
\* and the frame accumulated so far goes with the function's locals
GetFails ==
    /\ pc = "get"
    /\ (startindex - 1) \div PageSize < MaxPages
    /\ requests' = Append(requests,
           [region |-> region, ENG_PROV_NAME |-> provinces[region],
            startindex |-> startindex, failed |-> TRUE, received |-> 0])
    /\ result' = [outcome |-> "fetch_error", value |-> <<>>]
    /\ all_weather_stations' = <<>>
    /\ pc' = "done"
    /\ UNCHANGED <<provinces_arg, server, provinces, region, startindex>>
    /\ UNCHANGED wvars

\* lines 54-66: reset_index, the column fixes, return.  A frame that never
\* received a row has no LONGITUDE column and x["LONGITUDE"] raises KeyError.
Finish ==
    /\ pc = "for"
    /\ region > Len(provinces)
    /\ result' =
         IF all_weather_stations = <<>>
         THEN [outcome |-> "KeyError", value |-> <<>>]
         ELSE [outcome |-> "returned",
               value |-> [i \in 1..Len(all_weather_stations) |->
                             FixColumnTypes(all_weather_stations[i])]]
    /\ all_weather_stations' = <<>>
    /\ pc' = "done"
    /\ UNCHANGED <<provinces_arg, server, provinces, region, startindex,
                   requests>>
    /\ UNCHANGED wvars

WeatherIdle ==
    /\ wpc = "idle"
    /\ query = <<>>
    /\ weather_stations = <<>>
    /\ closest_station = <<>>
    /\ observations = <<>>
    /\ weather = <<>>

ScrapeInit ==
    /\ provinces_arg \in ProvinceArgs
    /\ server \in Servers
    /\ pc = "start"
    /\ provinces = <<>>
    /\ region = 0
    /\ startindex = 0
    /\ all_weather_stations = <<>>
    /\ requests = <<>>
    /\ result = NoResult
    /\ WeatherIdle

ScrapeNext == Start \/ NextProvince \/ GetPage \/ GetFails \/ Finish

ScrapeSpec == ScrapeInit /\ [][ScrapeNext]_vars

\* The function runs on one thread until it returns or raises, and every
\* request it makes is answered or fails: a step that can be taken is taken.
ScrapeFairSpec == ScrapeSpec /\ WF_vars(ScrapeNext)

---------------------------------------------------------------------------
(* Properties of scrape_weather_stations *)

\* the provinces the caller named, in order
ArgList ==
    IF provinces_arg.type = "str" THEN <<provinces_arg.value>>
    ELSE provinces_arg.value

\* one region, served in pages of at most PageSize from the offset asked for
SinglePagedRegion ==
    /\ Len(ArgList) = 1
    /\ server.limit = PageSize
    /\ server.paging = "honoured"

Fetched == pc = "done" /\ result.outcome /= "fetch_error"

C6_FailureAbortsFetch ==
    \A i \in DOMAIN requests :
        requests[i].failed =>
            /\ i = Len(requests)
            /\ pc = "done"
            /\ result = [outcome |-> "fetch_error", value |-> <<>>]

\* the failure meets a later page of the second region, pages already held
C6_Witness ==
    /\ pc = "done"
    /\ requests /= <<>>
    /\ requests[Len(requests)].failed
    /\ requests[Len(requests)].region = 2
    /\ requests[Len(requests)].startindex > 1
    /\ \E i \in DOMAIN requests : requests[i].received > 0
    /\ result.outcome = "fetch_error"

\* C8: within a region the offsets requested are 1, 501, 1001, ...; the next
\* offset follows exactly when the page just received holds 500 records, any
\* other page ends the region, whatever the server still holds, and the next
\* region then starts at 1.
C8_OffsetsFollowFullPages ==
    /\ \A i \in DOMAIN requests :
          LET r == requests[i]
          IN  /\ r.ENG_PROV_NAME = ArgList[r.region]
              /\ IF i = 1
                 THEN r.region = 1 /\ r.startindex = 1
                 ELSE LET q == requests[i - 1]
                      IN  /\ ~q.failed
                          /\ IF q.received = PageSize
                             THEN /\ r.region = q.region
                                  /\ r.startindex = q.startindex + PageSize
                             ELSE /\ r.region = q.region + 1
                                  /\ r.startindex = 1
    /\ \A i, j \in DOMAIN requests :
          (i < j /\ requests[i].region = requests[j].region)
              => requests[i].received = PageSize
    /\ requests /= <<>> =>
          LET q == requests[Len(requests)]
          IN  \/ q.failed
              \/ /\ q.received = PageSize
                 /\ pc = "get"
                 /\ region = q.region
                 /\ startindex = q.startindex + PageSize
              \/ /\ q.received /= PageSize
                 /\ region = q.region + 1
                 /\ pc = "get" => startindex = 1

\* two regions: offsets 1, 501, 1001 in the first, then 1 in the second
C8_Witness ==
    /\ Len(requests) = 4
    /\ requests[1].startindex = 1
    /\ requests[2].startindex = 1 + PageSize
    /\ requests[3].startindex = 1 + 2 * PageSize
    /\ requests[3].received /= PageSize
    /\ requests[4].region = 2
    /\ requests[4].startindex = 1
    /\ ~requests[4].failed

\* the pages received, in request order
ReceivedPages ==
    [i \in DOMAIN requests |->
        Respond(server, requests[i].ENG_PROV_NAME, requests[i].startindex)]

\* C9: the catalog returned is the concatenation of the pages received
\* (column types fixed), regions in the order given and pages in request
\* order, nothing dropped, reordered or deduplicated; a str argument is
\* fetched as the one-element list holding it.
C9_CatalogIsConcatenation ==
    /\ pc /= "start" => provinces = ArgList
    /\ result.outcome = "returned" =>
          LET all == Concat(ReceivedPages)
          IN  /\ result.value = [i \in DOMAIN all |-> FixColumnTypes(all[i])]
              /\ {requests[i].region : i \in DOMAIN requests} = DOMAIN ArgList
              /\ \A i \in DOMAIN requests :
                    /\ requests[i].ENG_PROV_NAME = ArgList[requests[i].region]
                    /\ i > 1 => requests[i - 1].region <= requests[i].region

\* a province named twice and served in overlapping pages: every record is
\* returned twice, the record shared by two pages four times
C9_Witness ==
    /\ result.outcome = "returned"
    /\ Len(ArgList) = 2
    /\ ArgList[1] = ArgList[2]
    /\ server.paging = "overlapping"
    /\ server.limit = PageSize
    /\ server.held[ArgList[1]] = 2 * PageSize
    /\ Len(result.value) = 2 * (2 * PageSize + 1)
    /\ result.value[PageSize] = result.value[PageSize + 1]

\* the server answers a request of province p with a page that is not full
\* within the pages followed
EventuallyShort(p) ==
    \E k \in 0..(MaxPages - 1) :
        PageLength(server, p, 1 + k * PageSize) /= PageSize

\* the server answers every request of province p with a full page
AlwaysFull(p) ==
    \A k \in 0..MaxPages :
        PageLength(server, p, 1 + k * PageSize) = PageSize

\* C10: the fetch ends when, for every region, the server eventually answers
\* with a page that is not full (or a request fails); while the server answers
\* every request of a region with a full page the loop is left by a failure
\* only, nothing else bounds it.
C10_EndsOnlyOnShortPage ==
    /\ (\A i \in DOMAIN ArgList : EventuallyShort(ArgList[i])) ~> (pc = "done")
    /\ [][(pc = "get" /\ AlwaysFull(provinces[region]))
            => (pc' = "get" \/ result'.outcome = "fetch_error")]_vars

\* a server that ignores startindex has answered every request followed with
\* the same full page, and the loop is still asking
C10_Witness ==
    /\ pc = "get"
    /\ AlwaysFull(provinces[region])
    /\ Len(requests) = MaxPages
    /\ \A i \in DOMAIN requests : requests[i].received = PageSize
    /\ startindex = 1 + MaxPages * PageSize

---------------------------------------------------------------------------
(* closest_weather_station and weather_data *)

\* Bounds of the model
\* longest catalog handed to the resolver
MaxStations == 3
\* most rows the observation endpoint answers with
MaxRows == 2

\* Coordinates are points of a small integer grid, dates are day ordinals.
StationPoints == {<<0, 0>>, <<0, 2>>, <<2, 1>>}
QueryPoints == {<<0, 1>>, <<0, 0>>}
QueryDates == {2, 3}
\* <<FIRST_DATE, LAST_DATE>>: each range holds one query date strictly inside
\* and touches the other at a boundary, or lies before both
DateRanges == {<<1, 3>>, <<2, 4>>, <<1, 2>>}

\* A row of the catalog frame as scrape_weather_stations returns it; the k-th
\* row carries identifiers derived from k.
Station(k, point, range) ==
    [STATION_NAME       |-> <<"STATION", k>>,
     STN_ID             |-> k,
     CLIMATE_IDENTIFIER |-> 7000 + k,
     LATITUDE           |-> point[1],
     LONGITUDE          |-> point[2],
     FIRST_DATE         |-> range[1],
     LAST_DATE          |-> range[2]]

Catalogs ==
    {[k \in DOMAIN c |-> Station(k, c[k][1], c[k][2])] :
        c \in SeqsUpTo(StationPoints \X DateRanges, MaxStations)}

\* lines 85-87: query("FIRST_DATE < @date_ and LAST_DATE > @date_") and
\* reset_index(drop=True): the rows kept, in catalog order, renumbered
\* Variant of line 86 with the comparisons not strict.
InRange_Inclusive(s, date_) == s.FIRST_DATE <= date_ /\ s.LAST_DATE >= date_

InRange(s, date_) == s.FIRST_DATE < date_ /\ s.LAST_DATE > date_

FilterByDate(stations, date_) ==
    SelectSeq(stations, LAMBDA s : InRange(s, date_))

\* lines 91-93: distance.distance(...).km, here the squared planar distance
\* between grid points, which orders points as their distance does
Distance(latitude, longitude, s) ==
    (s.LATITUDE - latitude) * (s.LATITUDE - latitude)
    + (s.LONGITUDE - longitude) * (s.LONGITUDE - longitude)

\* line 96: assign(DISTANCE_WEATHER_STATION_KM=distances)
AssignDistance(stations, latitude, longitude) ==
    [i \in DOMAIN stations |->
        stations[i] @@ ("DISTANCE_WEATHER_STATION_KM" :>
                            Distance(latitude, longitude, stations[i]))]

\* Variant of line 103 that takes the last occurrence of the minimum.
IdxMin_Last(stations) ==
    CHOOSE i \in DOMAIN stations :
        /\ \A j \in DOMAIN stations :
              stations[i].DISTANCE_WEATHER_STATION_KM
                  <= stations[j].DISTANCE_WEATHER_STATION_KM
        /\ \A j \in (i + 1)..Len(stations) :
              stations[j].DISTANCE_WEATHER_STATION_KM
                  /= stations[i].DISTANCE_WEATHER_STATION_KM

\* line 103: Series.idxmin(): the label of the first occurrence of the minimum
IdxMin(stations) ==
    CHOOSE i \in DOMAIN stations :
        /\ \A j \in DOMAIN stations :
              stations[i].DISTANCE_WEATHER_STATION_KM
                  <= stations[j].DISTANCE_WEATHER_STATION_KM
        /\ \A j \in 1..(i - 1) :
              stations[j].DISTANCE_WEATHER_STATION_KM
                  /= stations[i].DISTANCE_WEATHER_STATION_KM

\* The exceptions pandas raises when no row survives the filter: query() on a
\* frame without columns cannot resolve FIRST_DATE (line 85); otherwise the
\* assignment or idxmin() of an empty column raises ValueError (lines 96-103).
EmptyFaults(stations) ==
    IF stations = <<>>
    THEN {"UndefinedVariableError", "ValueError"}
    ELSE {"ValueError"}

\* lines 85-106: the outcomes of closest_weather_station
ClosestWeatherStation(latitude, longitude, date_, stations) ==
    LET kept == AssignDistance(FilterByDate(stations, date_), latitude, longitude)
    IN  IF kept = <<>>
        THEN {[outcome |-> f, value |-> <<>>] : f \in EmptyFaults(stations)}
        ELSE {[outcome |-> "returned", value |-> kept[IdxMin(kept)]]}

(* The climate-daily endpoint *)

DroppedColumns ==
    {"LOCAL_DATE", "LOCAL_DAY", "LOCAL_MONTH", "LOCAL_YEAR", "ID", "PROVINCE_CODE"}

FallbackColumns ==
    <<"STATION_NAME", "STN_ID", "CLIMATE_IDENTIFIER", "DISTANCE_WEATHER_STATION_KM">>

\* Key orders of the "properties" object of a climate-daily feature.
Layouts ==
    {<<"STATION_NAME", "CLIMATE_IDENTIFIER", "ID", "LOCAL_DATE", "PROVINCE_CODE",
       "LOCAL_YEAR", "LOCAL_MONTH", "LOCAL_DAY", "MEAN_TEMPERATURE",
       "TOTAL_PRECIPITATION">>,
     <<"ID", "LOCAL_DATE", "MEAN_TEMPERATURE", "STATION_NAME", "LOCAL_DAY",
       "TOTAL_PRECIPITATION", "LOCAL_MONTH", "LOCAL_YEAR", "PROVINCE_CODE",
       "CLIMATE_IDENTIFIER">>,
     <<"TOTAL_PRECIPITATION", "PROVINCE_CODE", "LOCAL_YEAR", "LOCAL_MONTH",
       "LOCAL_DAY", "LOCAL_DATE", "ID", "CLIMATE_IDENTIFIER">>}

\* The value of column c in the i-th feature served.
Cell(layout, c, i) ==
    100 * i + (CHOOSE n \in DOMAIN layout : layout[n] = c)

\* lines 136-137 and pd.DataFrame(weather_list) of line 151: a frame is its
\* column labels in order and its rows
ObservationFrames ==
    {[columns |-> layout,
      rows |-> [i \in 1..n |->
                  [c \in {layout[k] : k \in DOMAIN layout} |-> Cell(layout, c, i)]]] :
        layout \in Layouts, n \in 1..MaxRows}
    \cup {[columns |-> <<>>, rows |-> <<>>]}

ColumnSet(frame) == {frame.columns[k] : k \in DOMAIN frame.columns}

\* Variant of lines 141-148 without the column selection.
FallbackFrame_AllColumns(station) ==
    [columns |-> FallbackColumns \o <<"LATITUDE", "LONGITUDE">>,
     rows |-> << [c \in {"STATION_NAME", "STN_ID", "CLIMATE_IDENTIFIER",
                         "DISTANCE_WEATHER_STATION_KM", "LATITUDE", "LONGITUDE"} |->
                    station[c]] >>]

\* lines 141-148: pd.DataFrame(closest_station, index=[0])[[...]]
FallbackFrame(station) ==
    [columns |-> FallbackColumns,
     rows |-> << [c \in {FallbackColumns[k] : k \in DOMAIN FallbackColumns} |->
                    station[c]] >>]

\* lines 151-161: DataFrame.drop(labels, axis=1); a label that is no column
\* raises KeyError
Drop(frame, labels) ==
    IF ~(labels \subseteq ColumnSet(frame))
    THEN [outcome |-> "KeyError", value |-> <<>>]
    ELSE LET keep == SelectSeq(frame.columns, LAMBDA c : c \notin labels)
         IN  [outcome |-> "returned",
              value |-> [columns |-> keep,
                         rows |-> [i \in DOMAIN frame.rows |->
                                     [c \in {keep[k] : k \in DOMAIN keep} |->
                                         frame.rows[i][c]]]]]

\* lines 164-170: DataFrame.insert(loc, column, value) with a scalar value:
\* the new column takes zero-based position loc, the columns from there on
\* move right; an existing label raises ValueError, a loc past the end
\* IndexError
Insert(frame, loc, column, value) ==
    IF column \in ColumnSet(frame)
    THEN [outcome |-> "ValueError", value |-> <<>>]
    ELSE IF loc > Len(frame.columns)
    THEN [outcome |-> "IndexError", value |-> <<>>]
    ELSE [outcome |-> "returned",
          value |-> [columns |-> SubSeq(frame.columns, 1, loc) \o <<column>>
                                 \o SubSeq(frame.columns, loc + 1, Len(frame.columns)),
                     rows |-> [i \in DOMAIN frame.rows |->
                                 frame.rows[i] @@ (column :> value)]]]

\* Variant of lines 164-170 with the two insertions in the other order.
ObservationTable_StationIdFirst(frame, station) ==
    LET dropped == Drop(frame, DroppedColumns)
    IN  IF dropped.outcome /= "returned" THEN dropped
        ELSE LET withId == Insert(dropped.value, 1, "STN_ID", station.STN_ID)
             IN  IF withId.outcome /= "returned" THEN withId
                 ELSE Insert(withId.value, 1, "DISTANCE_WEATHER_STATION_KM",
                             station.DISTANCE_WEATHER_STATION_KM)

\* lines 150-172: the table built from a non-empty answer
ObservationTable(frame, station) ==
    LET dropped == Drop(frame, DroppedColumns)
    IN  IF dropped.outcome /= "returned" THEN dropped
        ELSE LET withDistance ==
                     Insert(dropped.value, 1, "DISTANCE_WEATHER_STATION_KM",
                            station.DISTANCE_WEATHER_STATION_KM)
             IN  IF withDistance.outcome /= "returned" THEN withDistance
                 ELSE Insert(withDistance.value, 1, "STN_ID", station.STN_ID)

\* lines 125-127: weather_data calls closest_weather_station; its exception
\* is not caught
Resolve ==
    /\ wpc = "start"
    /\ \E r \in ClosestWeatherStation(query.latitude, query.longitude,
                                      query.date_, weather_stations) :
          /\ closest_station' = r
          /\ IF r.outcome = "returned"
             THEN wpc' = "get" /\ UNCHANGED weather
             ELSE wpc' = "done" /\ weather' = r
    /\ UNCHANGED <<query, weather_stations, observations>>
    /\ UNCHANGED svars

\* lines 128-137: the observation request is answered
GetObservations ==
    /\ wpc = "get"
    /\ \E frame \in ObservationFrames : observations' = frame
    /\ wpc' = "got"
    /\ UNCHANGED <<query, weather_stations, closest_station, weather>>
    /\ UNCHANGED svars

\* lines 136-137: requests.get or response.json() raises
GetObservationsFails ==
    /\ wpc = "get"
    /\ weather' = [outcome |-> "fetch_error", value |-> <<>>]
    /\ wpc' = "done"
    /\ UNCHANGED <<query, weather_stations, closest_station, observations>>
    /\ UNCHANGED svars

\* lines 140-149
Fallback ==
    /\ wpc = "got"
    /\ Len(observations.rows) = 0
    /\ weather' = [outcome |-> "returned",
                   value |-> FallbackFrame(closest_station.value)]
    /\ wpc' = "done"
    /\ UNCHANGED <<query, weather_stations, closest_station, observations>>
    /\ UNCHANGED svars

\* lines 150-172
BuildTable ==
    /\ wpc = "got"
    /\ Len(observations.rows) /= 0
    /\ weather' = ObservationTable(observations, closest_station.value)
    /\ wpc' = "done"
    /\ UNCHANGED <<query, weather_stations, closest_station, observations>>
    /\ UNCHANGED svars

ScrapeIdle ==
    /\ provinces_arg = <<>>
    /\ server = <<>>
    /\ pc = "idle"
    /\ provinces = <<>>
    /\ region = 0
    /\ startindex = 0
    /\ all_weather_stations = <<>>
    /\ requests = <<>>
    /\ result = NoResult

WeatherInit ==
    /\ wpc = "start"
    /\ query \in [latitude : {p[1] : p \in QueryPoints},
                  longitude : {p[2] : p \in QueryPoints},
                  date_ : QueryDates]
    /\ <<query.latitude, query.longitude>> \in QueryPoints
    /\ weather_stations \in Catalogs
    /\ closest_station = NoResult
    /\ observations = [columns |-> <<>>, rows |-> <<>>]
    /\ weather = NoResult
    /\ ScrapeIdle

WeatherNext ==
    Resolve \/ GetObservations \/ GetObservationsFails \/ Fallback \/ BuildTable

WeatherSpec == WeatherInit /\ [][WeatherNext]_vars

---------------------------------------------------------------------------
(* Properties of closest_weather_station and weather_data *)

\* closest_weather_station has returned or raised
Resolved == wpc /= "start"

\* the catalog positions whose range holds the query date strictly inside
StrictlyInRange ==
    {i \in DOMAIN weather_stations :
        /\ weather_stations[i].FIRST_DATE < query.date_
        /\ query.date_ < weather_stations[i].LAST_DATE}

DistanceTo(i) == Distance(query.latitude, query.longitude, weather_stations[i])

\* C2: with at least one station whose range holds the date strictly inside,
\* the station returned is one of those, at the least computed distance among
\* exactly those; a station whose FIRST_DATE or LAST_DATE is the query date
\* is never returned, however close.
C2_NearestAmongStrictlyInRange ==
    (Resolved /\ StrictlyInRange /= {}) =>
        /\ closest_station.outcome = "returned"
        /\ \E i \in StrictlyInRange :
              /\ closest_station.value =
                    weather_stations[i] @@
                        ("DISTANCE_WEATHER_STATION_KM" :> DistanceTo(i))
              /\ \A j \in StrictlyInRange : DistanceTo(i) <= DistanceTo(j)
        /\ closest_station.value.FIRST_DATE /= query.date_
        /\ closest_station.value.LAST_DATE /= query.date_

\* a station starting on the query date and one ending on it are both
\* strictly closer than the station returned
C2_Witness ==
    /\ Resolved
    /\ closest_station.outcome = "returned"
    /\ \E i, j \in DOMAIN weather_stations :
          /\ weather_stations[i].FIRST_DATE = query.date_
          /\ weather_stations[j].LAST_DATE = query.date_
          /\ DistanceTo(i) < closest_station.value.DISTANCE_WEATHER_STATION_KM
          /\ DistanceTo(j) < closest_station.value.DISTANCE_WEATHER_STATION_KM

\* C3 as stated: with no station whose range holds the date strictly inside
\* (an empty catalog included) the resolver ends in an explicit "no eligible
\* station" error, not in a fault of the frame library, and returns nothing.
C3_NoEligibleStationError ==
    (Resolved /\ StrictlyInRange = {}) =>
        closest_station = [outcome |-> "no_eligible_station", value |-> <<>>]

\* C4: when the observation endpoint answers with no row, the table returned
\* has one row and exactly the columns station name, station id, climate
\* identifier and distance, holding the values of the station the resolver
\* returns for the same inputs.
C4_FallbackRow ==
    (/\ wpc = "done"
     /\ closest_station.outcome = "returned"
     /\ weather.outcome /= "fetch_error"
     /\ Len(observations.rows) = 0) =>
        /\ closest_station \in
              ClosestWeatherStation(query.latitude, query.longitude,
                                    query.date_, weather_stations)
        /\ weather.outcome = "returned"
        /\ weather.value.columns =
              <<"STATION_NAME", "STN_ID", "CLIMATE_IDENTIFIER",
                "DISTANCE_WEATHER_STATION_KM">>
        /\ Len(weather.value.rows) = 1
        /\ DOMAIN weather.value.rows[1] =
              {"STATION_NAME", "STN_ID", "CLIMATE_IDENTIFIER",
               "DISTANCE_WEATHER_STATION_KM"}
        /\ \A c \in DOMAIN weather.value.rows[1] :
              weather.value.rows[1][c] = closest_station.value[c]

\* the fallback row of a station that is not the first of its catalog
C4_Witness ==
    /\ wpc = "done"
    /\ closest_station.outcome = "returned"
    /\ weather.outcome = "returned"
    /\ Len(observations.rows) = 0
    /\ Cardinality(StrictlyInRange) >= 2
    /\ weather.value.rows[1].STN_ID > 1

\* the columns of the answer that the table keeps, in the answer's order
KeptColumns ==
    SelectSeq(observations.columns,
              LAMBDA c : c \notin {"LOCAL_DATE", "LOCAL_DAY", "LOCAL_MONTH",
                                   "LOCAL_YEAR", "ID", "PROVINCE_CODE"})

\* C5: when the observation endpoint answers with rows, the table returned has
\* one row per observation and none of LOCAL_DATE, LOCAL_DAY, LOCAL_MONTH,
\* LOCAL_YEAR, ID, PROVINCE_CODE; STN_ID is at zero-based position 1 and
\* DISTANCE_WEATHER_STATION_KM at 2, right after the first remaining column,
\* both holding the resolved station's values; the other columns keep their
\* order and their values.
C5_ObservationColumns ==
    (wpc = "done" /\ Len(observations.rows) >= 1) =>
        LET cols == weather.value.columns
            rows == weather.value.rows
        IN  /\ weather.outcome = "returned"
            /\ Len(rows) = Len(observations.rows)
            /\ cols = <<KeptColumns[1], "STN_ID", "DISTANCE_WEATHER_STATION_KM">>
                      \o Tail(KeptColumns)
            /\ \A i \in DOMAIN rows :
                  /\ DOMAIN rows[i] = {cols[k] : k \in DOMAIN cols}
                  /\ rows[i].STN_ID = closest_station.value.STN_ID
                  /\ rows[i].DISTANCE_WEATHER_STATION_KM =
                        closest_station.value.DISTANCE_WEATHER_STATION_KM
                  /\ \A k \in DOMAIN KeptColumns :
                        rows[i][KeptColumns[k]] =
                            observations.rows[i][KeptColumns[k]]

\* two observations whose first served column is one of the dropped ones
C5_Witness ==
    /\ wpc = "done"
    /\ weather.outcome = "returned"
    /\ Len(observations.rows) = 2
    /\ observations.columns[1] = "ID"
    /\ weather.value.columns[1] = "MEAN_TEMPERATURE"
    /\ weather.value.columns[2] = "STN_ID"
    /\ weather.value.columns[3] = "DISTANCE_WEATHER_STATION_KM"

\* C7: among several stations in range at the same least distance, the one
\* returned is the first in catalog order, wherever the tied stations stand.
C7_FirstOfTiedStations ==
    (Resolved /\ closest_station.outcome = "returned") =>
        \A j \in StrictlyInRange :
            (\A k \in StrictlyInRange : DistanceTo(j) <= DistanceTo(k))
                => closest_station.value.STN_ID <= j

\* two stations in range tie at the least distance behind a farther one, and
\* the first of the two is returned
C7_Witness ==
    /\ Resolved
    /\ closest_station.outcome = "returned"
    /\ closest_station.value.STN_ID = 2
    /\ {1, 2, 3} \subseteq StrictlyInRange
    /\ DistanceTo(1) > DistanceTo(2)
    /\ DistanceTo(3) = DistanceTo(2)

=============================================================================
